---------------------------- MODULE Spec2Model ----------------------------
(***************************************************************************)
(* Model of the LeetCode company-wise problem service:                     *)
(*   - Normalizer      (src/services/normalizer.js, lines 1-87)            *)
(*   - DataService     (src/services/normalizer.js, lines 88-295)          *)
(*   - GitHubFetcher   (src/services/normalizer.js, lines 296-508)         *)
(*   - CSVParser       (src/unnamed/part_001)                              *)
(*   - routes          (src/unnamed/part_000) and src/server.js            *)
(*                                                                         *)
(* JavaScript strings are sequences of one-character strings, so that the  *)
(* text transforms are computed and not assumed.                           *)
(***************************************************************************)
EXTENDS Integers, Sequences, FiniteSets, TLC

(***************************************************************************)
(* Bounds of the model.                                                    *)
(***************************************************************************)
\* problems folded by one stepwise build
MaxRecords == 2
\* updateData invocations in one run of the server (the first is initialize)
MaxInvocations == 3
\* readings of the wall clock
MaxClock == 1

\* the longest title of a row drawn for the two-file update
MaxTitleLen == 4

(***************************************************************************)
(* Characters and strings.                                                 *)
(***************************************************************************)
SpaceChars == {" ", "\t"}
UpperChars == {"A", "B"}
LowerChars == {"a", "b"}
DigitChars == {"0", "1", "2", "5"}

\* \s of the regular expressions
IsSpace(c) == c \in SpaceChars

\* \w of the regular expressions: [A-Za-z0-9_]
IsWord(c) == c \in UpperChars \cup LowerChars \cup DigitChars \cup {"_"}

LowerChar(c) ==
  CASE c = "A" -> "a"
    [] c = "B" -> "b"
    [] OTHER -> c

\* String.prototype.toLowerCase
ToLowerCase(s) == [i \in 1..Len(s) |-> LowerChar(s[i])]

RECURSIVE TrimStart(_)
TrimStart(s) ==
  IF s # <<>> /\ IsSpace(Head(s)) THEN TrimStart(Tail(s)) ELSE s

RECURSIVE TrimEnd(_)
TrimEnd(s) ==
  IF s # <<>> /\ IsSpace(s[Len(s)]) THEN TrimEnd(SubSeq(s, 1, Len(s) - 1)) ELSE s

\* String.prototype.trim
Trim(s) == TrimEnd(TrimStart(s))

\* .replace(/\s+/g, rep): every maximal run of whitespace becomes rep
RECURSIVE ReplaceSpaceRuns(_, _)
ReplaceSpaceRuns(s, rep) ==
  IF s = <<>> THEN <<>>
  ELSE IF IsSpace(Head(s))
       THEN rep \o ReplaceSpaceRuns(TrimStart(Tail(s)), rep)
       ELSE <<Head(s)>> \o ReplaceSpaceRuns(Tail(s), rep)

RECURSIVE DropHyphens(_)
DropHyphens(s) ==
  IF s # <<>> /\ Head(s) = "-" THEN DropHyphens(Tail(s)) ELSE s

\* .replace(/-+/g, '-')
RECURSIVE CollapseHyphens(_)
CollapseHyphens(s) ==
  IF s = <<>> THEN <<>>
  ELSE IF Head(s) = "-"
       THEN <<"-">> \o CollapseHyphens(DropHyphens(Tail(s)))
       ELSE <<Head(s)>> \o CollapseHyphens(Tail(s))

\* .replace(/^-|-$/g, ''): one hyphen off the front, then one off the end
StripEdgeHyphens(s) ==
  LET a == IF s # <<>> /\ Head(s) = "-" THEN Tail(s) ELSE s
  IN  IF a # <<>> /\ a[Len(a)] = "-" THEN SubSeq(a, 1, Len(a) - 1) ELSE a

\* .replace(/[^\w\s-]/g, '')
RemoveSpecial(s) ==
  SelectSeq(s, LAMBDA c : IsWord(c) \/ IsSpace(c) \/ c = "-")

\* String.prototype.includes
Includes(s, sub) ==
  \E i \in 0..(Len(s) - Len(sub)) : SubSeq(s, i + 1, i + Len(sub)) = sub

(***************************************************************************)
(* Normalizer                                                              *)
(***************************************************************************)
normalizeTitle(title) ==
  IF title = <<>> THEN <<>>
  ELSE ReplaceSpaceRuns(Trim(ToLowerCase(title)), <<" ">>)

\* titleToSlug without its toLowerCase()
titleToSlugKeepCase(title) ==
  IF title = <<>> THEN <<>>
  ELSE StripEdgeHyphens(
         CollapseHyphens(
           ReplaceSpaceRuns(RemoveSpecial(Trim(title)), <<"-">>)))

titleToSlug(title) ==
  IF title = <<>> THEN <<>>
  ELSE StripEdgeHyphens(
         CollapseHyphens(
           ReplaceSpaceRuns(RemoveSpecial(Trim(ToLowerCase(title))), <<"-">>)))

normalizeSlug(slug) ==
  IF slug = <<>> THEN <<>>
  ELSE StripEdgeHyphens(
         CollapseHyphens(ReplaceSpaceRuns(Trim(ToLowerCase(slug)), <<"-">>)))

(***************************************************************************)
(* CSVParser                                                               *)
(*                                                                         *)
(* A row is what Papa.parse hands over, reduced to the two columns the     *)
(* parser reads: [title, hasFrequency, frequency].  A problem has the same *)
(* shape; hasFrequency = FALSE is an absent (undefined) frequency.         *)
(***************************************************************************)
Problem(title, frequency) ==
  [title |-> title, hasFrequency |-> TRUE, frequency |-> frequency]

ProblemNoFrequency(title) ==
  [title |-> title, hasFrequency |-> FALSE, frequency |-> 0]

\* extractFrequency: the parsed column, or 1 when there is none
extractFrequency(row) == IF row.hasFrequency THEN row.frequency ELSE 1

\* extractProblems: rows without a title are skipped, a title already seen in
\* the file (lower-cased, trimmed) is skipped, the title is stored trimmed
RECURSIVE extractProblemsFrom(_, _, _)
extractProblemsFrom(rows, seen, problems) ==
  IF rows = <<>> THEN problems
  ELSE LET row == Head(rows)
           key == Trim(ToLowerCase(row.title))
       IN  IF row.title = <<>> \/ key \in seen
           THEN extractProblemsFrom(Tail(rows), seen, problems)
           ELSE extractProblemsFrom(Tail(rows), seen \cup {key},
                  Append(problems, Problem(Trim(row.title), extractFrequency(row))))

extractProblems(rows) == extractProblemsFrom(rows, {}, <<>>)

\* parseAllCSVs: the same companies and time ranges, each file's rows parsed
parseAllCSVs(repoData) ==
  [c \in 1..Len(repoData) |->
     [name |-> repoData[c].name,
      timeRanges |->
        [w \in 1..Len(repoData[c].timeRanges) |->
           [timeRange |-> repoData[c].timeRanges[w].timeRange,
            problems |-> extractProblems(repoData[c].timeRanges[w].content)]]]]

(***************************************************************************)
(* DataService: the index builder                                          *)
(*                                                                         *)
(* A Map is the sequence of its entries in insertion order; parsedData is  *)
(* the sequence Object.entries yields: companies, each with its time       *)
(* ranges, each with its problems.                                         *)
(***************************************************************************)
order == <<"30-days", "60-days", "90-days", "all-time">>

RECURSIVE FirstOf(_, _)
FirstOf(seq, ranges) ==
  IF seq = <<>> THEN "all-time"
  ELSE IF Head(seq) \in ranges THEN Head(seq) ELSE FirstOf(Tail(seq), ranges)

\* the fixed order searched from its broad end
getShortestRangeBroadest(ranges) ==
  FirstOf(<<"all-time", "90-days", "60-days", "30-days">>, ranges)

getShortestRange(ranges) == FirstOf(order, ranges)

MapHas(map, slug) == \E i \in 1..Len(map) : map[i].slug = slug

MapIndex(map, slug) == CHOOSE i \in 1..Len(map) : map[i].slug = slug

\* titleMap.set(key, value)
MapSet(map, key, value) ==
  [k \in DOMAIN map \cup {key} |-> IF k = key THEN value ELSE map[k]]

EmptyMap == [k \in {} |-> <<>>]

\* the last record wins
updateFrequencyOverwrite(frequency, problem) ==
  IF problem.hasFrequency /\ problem.frequency # 0
  THEN problem.frequency
  ELSE frequency

\* frequency after one record: if (problem.frequency) Math.max(...)
updateFrequency(frequency, problem) ==
  IF problem.hasFrequency /\ problem.frequency # 0
  THEN IF problem.frequency > frequency THEN problem.frequency ELSE frequency
  ELSE frequency

\* the companies of one problem after a record of companyName in timeRange
updateCompanies(companies, companyName, timeRange, problem) ==
  LET found == \E i \in 1..Len(companies) : companies[i].name = companyName
      list == IF found THEN companies
              ELSE Append(companies,
                     [name |-> companyName, frequency |-> 0,
                      timeRanges |-> {}, last_seen |-> "all-time"])
      at == CHOOSE i \in 1..Len(list) : list[i].name = companyName
      ranges == list[at].timeRanges \cup {timeRange}
  IN  [list EXCEPT ![at] =
         [name |-> companyName,
          frequency |-> updateFrequency(list[at].frequency, problem),
          timeRanges |-> ranges,
          last_seen |-> getShortestRange(ranges)]]

\* the body of the innermost loop of buildProblemIndex
foldProblem(local, companyName, timeRange, problem) ==
  LET slug == titleToSlug(problem.title)
      normalizedTitle == normalizeTitle(problem.title)
      isNew == ~MapHas(local.problemMap, slug)
      map == IF isNew
             THEN Append(local.problemMap,
                    [problem |-> problem.title, slug |-> slug, companies |-> <<>>])
             ELSE local.problemMap
      at == MapIndex(map, slug)
  IN  [local EXCEPT
         !.problemMap =
            [map EXCEPT ![at].companies =
               updateCompanies(map[at].companies, companyName, timeRange, problem)],
         !.titleMap =
            IF isNew THEN MapSet(local.titleMap, normalizedTitle, slug)
            ELSE local.titleMap]

RECURSIVE foldProblems(_, _, _, _)
foldProblems(local, companyName, timeRange, problems) ==
  IF problems = <<>> THEN local
  ELSE foldProblems(foldProblem(local, companyName, timeRange, Head(problems)),
                    companyName, timeRange, Tail(problems))

RECURSIVE foldTimeRanges(_, _, _)
foldTimeRanges(local, companyName, timeRanges) ==
  IF timeRanges = <<>> THEN local
  ELSE foldTimeRanges(
         foldProblems(local, companyName, Head(timeRanges).timeRange,
                      Head(timeRanges).problems),
         companyName, Tail(timeRanges))

addCompany(local, companyName) ==
  [local EXCEPT !.companiesSet = @ \cup {companyName}]

RECURSIVE foldCompanies(_, _)
foldCompanies(local, parsedData) ==
  IF parsedData = <<>> THEN local
  ELSE foldCompanies(
         foldTimeRanges(addCompany(local, Head(parsedData).name),
                        Head(parsedData).name, Head(parsedData).timeRanges),
         Tail(parsedData))

EmptyLocal == [problemMap |-> <<>>, titleMap |-> EmptyMap, companiesSet |-> {}]

\* Array.prototype.sort is stable: an element goes behind every element that
\* does not compare after it
\* an unstable insertion: an element goes before its equals
RECURSIVE insertBeforeEquals(_, _)
insertBeforeEquals(sorted, c) ==
  IF sorted = <<>> THEN <<c>>
  ELSE IF Head(sorted).frequency > c.frequency
       THEN <<Head(sorted)>> \o insertBeforeEquals(Tail(sorted), c)
       ELSE <<c>> \o sorted

RECURSIVE insertByFrequency(_, _)
insertByFrequency(sorted, c) ==
  IF sorted = <<>> THEN <<c>>
  ELSE IF Head(sorted).frequency >= c.frequency
       THEN <<Head(sorted)>> \o insertByFrequency(Tail(sorted), c)
       ELSE <<c>> \o sorted

RECURSIVE sortFrom(_, _)
sortFrom(companies, sorted) ==
  IF companies = <<>> THEN sorted
  ELSE sortFrom(Tail(companies), insertByFrequency(sorted, Head(companies)))

\* companies.sort((a, b) => b.frequency - a.frequency)
sortCompanies(companies) == sortFrom(companies, <<>>)

sortAll(map) ==
  [i \in 1..Len(map) |-> [map[i] EXCEPT !.companies = sortCompanies(@)]]

\* the assignments without the one of titleMap
assignIndexStaleTitles(this, local) ==
  [this EXCEPT !.problemMap = sortAll(local.problemMap),
               !.totalProblems = Len(local.problemMap),
               !.totalCompanies = Cardinality(local.companiesSet)]

\* the four assignments that end buildProblemIndex
assignIndex(this, local) ==
  [this EXCEPT !.problemMap = sortAll(local.problemMap),
               !.titleMap = local.titleMap,
               !.totalProblems = Len(local.problemMap),
               !.totalCompanies = Cardinality(local.companiesSet)]

\* the index built in place: the fields are emptied first, filled as the loops
\* run, and an exception leaves them as they are then
buildProblemIndexInPlace(this, parsedData, fault) ==
  IF fault
  THEN [threw |-> TRUE,
        this |-> [this EXCEPT !.problemMap = <<>>, !.titleMap = EmptyMap]]
  ELSE [threw |-> FALSE,
        this |-> assignIndex(this, foldCompanies(EmptyLocal, parsedData))]

\* buildProblemIndex(parsedData).  fault: an exception is raised while the
\* loops run; the maps built so far are locals and are dropped with the frame.
buildProblemIndex(this, parsedData, fault) ==
  IF fault THEN [threw |-> TRUE, this |-> this]
  ELSE [threw |-> FALSE,
        this |-> assignIndex(this, foldCompanies(EmptyLocal, parsedData))]

\* the state the constructor leaves; lastUpdated: <<>> is null, <<t>> a time
NewDataService ==
  [problemMap |-> <<>>, titleMap |-> EmptyMap, lastUpdated |-> <<>>,
   totalProblems |-> 0, totalCompanies |-> 0]

(***************************************************************************)
(* DataService: the queries                                                *)
(*                                                                         *)
(* A query returns [found, value]; found = FALSE is null.  An absent or    *)
(* empty timeRange is "".                                                  *)
(***************************************************************************)
Null == [found |-> FALSE, value |-> <<>>]

\* rangeMap[timeRange] || timeRange
targetRangeOf(timeRange) ==
  CASE timeRange = "30" -> "30-days"
    [] timeRange = "60" -> "60-days"
    [] timeRange = "90" -> "90-days"
    [] timeRange = "all" -> "all-time"
    [] OTHER -> timeRange

\* each window alone: the hierarchy without its tighter windows
getIncludedRangesAlone(targetRange) ==
  CASE targetRange = "30-days" -> <<"30-days">>
    [] targetRange = "60-days" -> <<"60-days">>
    [] targetRange = "90-days" -> <<"90-days">>
    [] OTHER -> <<"30-days", "60-days", "90-days", "all-time">>

getIncludedRanges(targetRange) ==
  CASE targetRange = "30-days" -> <<"30-days">>
    [] targetRange = "60-days" -> <<"30-days", "60-days">>
    [] targetRange = "90-days" -> <<"30-days", "60-days", "90-days">>
    [] targetRange = "all-time" -> <<"30-days", "60-days", "90-days", "all-time">>
    [] OTHER -> <<"30-days", "60-days", "90-days", "all-time">>

\* .filter(company => includedRanges.some(range => company.timeRanges[range]))
filterCompanies(companies, includedRanges) ==
  SelectSeq(companies,
            LAMBDA company :
              \E r \in 1..Len(includedRanges) :
                includedRanges[r] \in company.timeRanges)

\* .map(company => ({name, frequency, last_seen}))
projectCompanies(companies) ==
  [j \in 1..Len(companies) |->
     [name |-> companies[j].name,
      frequency |-> companies[j].frequency,
      last_seen |-> companies[j].last_seen]]

filterByTimeRange(problemData, timeRange) ==
  IF timeRange = "" THEN problemData
  ELSE [problem |-> problemData.problem,
        slug |-> problemData.slug,
        companies |->
          projectCompanies(
            filterCompanies(problemData.companies,
                            getIncludedRanges(targetRangeOf(timeRange))))]

queryBySlug(this, slug, timeRange) ==
  LET normalizedSlug == normalizeSlug(slug)
  IN  IF ~MapHas(this.problemMap, normalizedSlug) THEN Null
      ELSE [found |-> TRUE,
            value |-> filterByTimeRange(
                        this.problemMap[MapIndex(this.problemMap, normalizedSlug)],
                        timeRange)]

queryByTitle(this, title, timeRange) ==
  LET normalizedTitle == normalizeTitle(title)
  IN  IF normalizedTitle \notin DOMAIN this.titleMap THEN Null
      ELSE IF this.titleMap[normalizedTitle] = <<>> THEN Null
      ELSE queryBySlug(this, this.titleMap[normalizedTitle], timeRange)

\* the test of one entry in searchProblems
matchesSearch(data, normalizedQuery) ==
  \/ Includes(ToLowerCase(data.problem), normalizedQuery)
  \/ Includes(data.slug, normalizedQuery)

\* the loop of searchProblems: it breaks when a push fills the results
RECURSIVE scanProblems(_, _, _, _)
scanProblems(entries, normalizedQuery, limit, results) ==
  IF entries = <<>> THEN results
  ELSE IF matchesSearch(Head(entries), normalizedQuery)
       THEN LET pushed == Append(results,
                            [problem |-> Head(entries).problem,
                             slug |-> Head(entries).slug,
                             companyCount |-> Len(Head(entries).companies)])
            IN  IF Len(pushed) >= limit THEN pushed
                ELSE scanProblems(Tail(entries), normalizedQuery, limit, pushed)
       ELSE scanProblems(Tail(entries), normalizedQuery, limit, results)

searchProblems(this, query, limit) ==
  scanProblems(this.problemMap, Trim(ToLowerCase(query)), limit, <<>>)

getStatus(this) ==
  [lastUpdated |-> this.lastUpdated,
   totalProblems |-> this.totalProblems,
   totalCompanies |-> this.totalCompanies]

(***************************************************************************)
(* The /search route: the limit of the query string                        *)
(***************************************************************************)
DigitValue(c) ==
  CASE c = "0" -> 0
    [] c = "1" -> 1
    [] c = "2" -> 2
    [] c = "5" -> 5

RECURSIVE DigitsPrefix(_)
DigitsPrefix(s) ==
  IF s # <<>> /\ Head(s) \in DigitChars
  THEN <<Head(s)>> \o DigitsPrefix(Tail(s))
  ELSE <<>>

RECURSIVE DecimalValue(_)
DecimalValue(digits) ==
  IF digits = <<>> THEN 0
  ELSE 10 * DecimalValue(SubSeq(digits, 1, Len(digits) - 1))
         + DigitValue(digits[Len(digits)])

\* parseInt(string): leading whitespace, a sign, then decimal digits up to the
\* first other character; NaN when there is no digit
parseInt(string) ==
  LET trimmed == TrimStart(string)
      signed == trimmed # <<>> /\ Head(trimmed) \in {"-", "+"}
      digits == DigitsPrefix(IF signed THEN Tail(trimmed) ELSE trimmed)
  IN  IF digits = <<>> THEN [nan |-> TRUE, value |-> 0]
      ELSE [nan |-> FALSE,
            value |-> IF signed /\ Head(trimmed) = "-"
                      THEN 0 - DecimalValue(digits)
                      ELSE DecimalValue(digits)]

DefaultLimit == 10

LimitCap == 50

\* Math.min(parseInt(limit) || 10, 50)
maxLimitOf(limit) ==
  LET parsed == parseInt(limit)
      wanted == IF parsed.nan \/ parsed.value = 0 THEN DefaultLimit
                ELSE parsed.value
  IN  IF wanted < LimitCap THEN wanted ELSE LimitCap

(***************************************************************************)
(* GitHubFetcher                                                           *)
(*                                                                         *)
(* A ZIP entry is [isDirectory, parts, content]: parts is entryName split  *)
(* at '/', content the rows of the file.                                   *)
(***************************************************************************)
CsvFileNames ==
  {"1. Thirty Days.csv", "2. Three Months.csv", "3. Six Months.csv",
   "4. More Than Six Months.csv", "5. All.csv", "Thirty Days.csv",
   "Three Months.csv", "Six Months.csv", "More Than Six Months.csv", "All.csv",
   "notes.csv"}

\* entryName.endsWith('.csv')
EndsWithCsv(parts) == parts # <<>> /\ parts[Len(parts)] \in CsvFileNames

\* this.fileMapping[fileName]; "" is undefined
fileMapping(fileName) ==
  CASE fileName \in {"1. Thirty Days.csv", "Thirty Days.csv"} -> "30-days"
    [] fileName \in {"2. Three Months.csv", "Three Months.csv"} -> "90-days"
    [] fileName \in {"3. Six Months.csv", "Six Months.csv"} -> "180-days"
    [] fileName \in {"4. More Than Six Months.csv", "More Than Six Months.csv",
                     "5. All.csv", "All.csv"} -> "all-time"
    [] OTHER -> ""

\* repoData[companyName][timeRange] = content
setFile(repoData, companyName, timeRange, content) ==
  LET withCompany ==
        IF \E c \in 1..Len(repoData) : repoData[c].name = companyName
        THEN repoData
        ELSE Append(repoData, [name |-> companyName, timeRanges |-> <<>>])
      c == CHOOSE i \in 1..Len(withCompany) : withCompany[i].name = companyName
      trs == withCompany[c].timeRanges
  IN  IF \E w \in 1..Len(trs) : trs[w].timeRange = timeRange
      THEN LET w == CHOOSE i \in 1..Len(trs) : trs[i].timeRange = timeRange
           IN  [withCompany EXCEPT ![c].timeRanges[w].content = content]
      ELSE [withCompany EXCEPT ![c].timeRanges =
              Append(trs, [timeRange |-> timeRange, content |-> content])]

\* the loop over zipEntries
RECURSIVE loadEntries(_, _)
loadEntries(zipEntries, repoData) ==
  IF zipEntries = <<>> THEN repoData
  ELSE LET entry == Head(zipEntries)
           parts == entry.parts
           skip == \/ entry.isDirectory
                   \/ ~EndsWithCsv(parts)
                   \/ Len(parts) < 3
                   \/ fileMapping(parts[Len(parts)]) = ""
       IN  IF skip THEN loadEntries(Tail(zipEntries), repoData)
           ELSE loadEntries(Tail(zipEntries),
                  setFile(repoData, parts[Len(parts) - 1],
                          fileMapping(parts[Len(parts)]), entry.content))

\* fetchRepository: the download fails, or no company is found, or repoData
fetchRepository(download) ==
  IF download.failed THEN [threw |-> TRUE, repoData |-> <<>>]
  ELSE LET repoData == loadEntries(download.zipEntries, <<>>)
       IN  IF Len(repoData) = 0 THEN [threw |-> TRUE, repoData |-> <<>>]
           ELSE [threw |-> FALSE, repoData |-> repoData]

(***************************************************************************)
(* State                                                                   *)
(***************************************************************************)
VARIABLES
  svc,         \* the DataService singleton: problemMap, titleMap, lastUpdated,
               \* totalProblems, totalCompanies
  bpc,         \* stepwise build: "idle", "building" or "returned"
  parsedData,  \* stepwise build: the part of its argument iterated so far
  local,       \* stepwise build: the locals problemMap, titleMap, companiesSet
  calls,       \* the updateData invocations, in the order they began
  clock,       \* what new Date() reads
  process,     \* "starting", "listening" or "exited"
  builds,      \* direct calls of buildProblemIndex made so far
  response     \* the last call made on the DataService and what it returned

buildVars == <<bpc, parsedData, local>>
serverVars == <<calls, clock, process>>
queryVars == <<builds, response>>
vars == <<svc, bpc, parsedData, local, calls, clock, process, builds, response>>

NoResponse == [op |-> "none"]

Init ==
  /\ svc = NewDataService
  /\ bpc = "idle"
  /\ parsedData = <<>>
  /\ local = EmptyLocal
  /\ calls = <<>>
  /\ clock = 0
  /\ process = "starting"
  /\ builds = 0
  /\ response = NoResponse

(***************************************************************************)
(* buildProblemIndex, one loop iteration per step.  The argument is drawn  *)
(* as the loops reach it: company names are distinct keys of parsedData,   *)
(* time ranges distinct keys of a company.  The argument drawn has no      *)
(* empty file and no company without a file before its last ones.          *)
(***************************************************************************)
Companies == {"Acme", "Beta"}

\* the labels GitHubFetcher.fileMapping gives the files
TimeRanges == {"30-days", "90-days", "180-days", "all-time"}

Titles == { <<"A", "b">>, <<"a", " ", "B">> }

Frequencies == 0..2

Problems ==
  {Problem(t, f) : t \in Titles, f \in Frequencies}
    \cup {ProblemNoFrequency(t) : t \in Titles}

\* the problems the loops have folded
RECURSIVE CountProblems(_)
CountProblems(data) ==
  IF data = <<>> THEN 0
  ELSE LET trs == Head(data).timeRanges
       IN  IF trs = <<>> THEN CountProblems(Tail(data))
           ELSE Len(Head(trs).problems)
                  + CountProblems(<<[Head(data) EXCEPT !.timeRanges = Tail(trs)]>>)
                  + CountProblems(Tail(data))

\* the file the loops are in has a problem
LastFileFilled ==
  LET trs == parsedData[Len(parsedData)].timeRanges
  IN  trs # <<>> /\ trs[Len(trs)].problems # <<>>

BeginBuild ==
  /\ bpc = "idle"
  /\ bpc' = "building"
  /\ parsedData' = <<>>
  /\ local' = EmptyLocal
  /\ UNCHANGED <<svc, serverVars, queryVars>>

NextCompany(companyName) ==
  /\ bpc = "building"
  /\ CountProblems(parsedData) < MaxRecords
  /\ parsedData # <<>> => LastFileFilled
  /\ \A c \in 1..Len(parsedData) : parsedData[c].name # companyName
  /\ parsedData' = Append(parsedData, [name |-> companyName, timeRanges |-> <<>>])
  /\ local' = addCompany(local, companyName)
  /\ UNCHANGED <<svc, bpc, serverVars, queryVars>>

NextTimeRange(timeRange) ==
  /\ bpc = "building"
  /\ parsedData # <<>>
  /\ CountProblems(parsedData) < MaxRecords
  /\ parsedData[Len(parsedData)].timeRanges # <<>> => LastFileFilled
  /\ LET c == Len(parsedData)
         trs == parsedData[c].timeRanges
     IN  /\ \A w \in 1..Len(trs) : trs[w].timeRange # timeRange
         /\ parsedData' =
              [parsedData EXCEPT ![c].timeRanges =
                 Append(trs, [timeRange |-> timeRange, problems |-> <<>>])]
  /\ UNCHANGED <<svc, bpc, local, serverVars, queryVars>>

NextProblem(problem) ==
  /\ bpc = "building"
  /\ parsedData # <<>>
  /\ parsedData[Len(parsedData)].timeRanges # <<>>
  /\ CountProblems(parsedData) < MaxRecords
  /\ LET c == Len(parsedData)
         w == Len(parsedData[c].timeRanges)
     IN  /\ parsedData' =
              [parsedData EXCEPT ![c].timeRanges[w].problems = Append(@, problem)]
         /\ local' = foldProblem(local, parsedData[c].name,
                                 parsedData[c].timeRanges[w].timeRange, problem)
  /\ UNCHANGED <<svc, bpc, serverVars, queryVars>>

FinishBuild ==
  /\ bpc = "building"
  /\ svc' = assignIndex(svc, local)
  /\ bpc' = "returned"
  /\ UNCHANGED <<parsedData, local, serverVars, queryVars>>

NextBuild ==
  \/ BeginBuild
  \/ \E companyName \in Companies : NextCompany(companyName)
  \/ \E timeRange \in TimeRanges : NextTimeRange(timeRange)
  \/ \E problem \in Problems : NextProblem(problem)
  \/ FinishBuild

SpecBuild == Init /\ [][NextBuild]_vars

\* the stepwise build computes what the one-call build computes
BuildAgrees ==
  bpc = "returned" =>
    svc = buildProblemIndex(NewDataService, parsedData, FALSE).this

(***************************************************************************)
(* The server: initialize, the scheduled update, POST /refresh.            *)
(*                                                                         *)
(* A call of updateData runs to its first await (fetching), resumes when   *)
(* fetchRepository settles, calls parseAllCSVs and awaits it (parsing),    *)
(* and resumes once more to build the index and stamp lastUpdated          *)
(* (building).  Each resumption is one step: nothing else runs between two *)
(* awaits.  parseAllCSVs awaits nothing, so its promise is settled when    *)
(* updateData awaits it and the continuation is a queued microtask: the    *)
(* event loop takes no other task before it has run.  A call is [caller, at, held, result, published]: at is the     *)
(* stage it is in or ended in, held its parsedData while it awaits,        *)
(* published the DataService it left when it returned normally.            *)
(***************************************************************************)
Row(title, frequency) ==
  [title |-> title, hasFrequency |-> TRUE, frequency |-> frequency]

RowNoFrequency(title) ==
  [title |-> title, hasFrequency |-> FALSE, frequency |-> 0]

File(companyName, fileName, content) ==
  [isDirectory |-> FALSE,
   parts |-> <<"leetcode-company-wise-problems-main", companyName, fileName>>,
   content |-> content]

Directory(companyName) ==
  [isDirectory |-> TRUE,
   parts |-> <<"leetcode-company-wise-problems-main", companyName, "">>,
   content |-> <<>>]

\* what the download can bring: two states of the upstream repository, an
\* archive without a recognized file, and a failed request
Downloads ==
  { [failed |-> TRUE, zipEntries |-> <<>>],
    [failed |-> FALSE,
     zipEntries |-> << Directory("Acme"),
                       File("Acme", "notes.csv", <<Row(<<"A", "b">>, 1)>>) >>],
    [failed |-> FALSE,
     zipEntries |-> << Directory("Acme"),
                       File("Acme", "1. Thirty Days.csv",
                            << Row(<<"A", "b">>, 2),
                               Row(<<" ", "a", "b">>, 3) >>) >>],
    [failed |-> FALSE,
     zipEntries |-> << File("Acme", "2. Three Months.csv",
                            << RowNoFrequency(<<"a", " ", "B">>),
                               Row(<<"A", "b">>, 1) >>),
                       File("Beta", "3. Six Months.csv",
                            << Row(<<"a", "b", "!">>, 2) >>),
                       File("Beta", "5. All.csv",
                            << Row(<<"a", "\t", "b">>, 0) >>) >>] }

Pending(i) == calls[i].result = "pending"

\* no continuation is queued: the event loop may take a timer, a request or
\* a response of the network
NoMicrotask ==
  \A i \in 1..Len(calls) : ~(Pending(i) /\ calls[i].at = "parsing")

\* updateData is called: it runs up to the await of fetchRepository
Call(caller) ==
  /\ NoMicrotask
  /\ Len(calls) < MaxInvocations
  /\ calls' = Append(calls, [caller |-> caller, at |-> "fetching", held |-> <<>>,
                             result |-> "pending", published |-> <<>>])
  /\ UNCHANGED <<svc, clock, process, buildVars, queryVars>>

\* server.js initialize(): DataService.initialize() at start-up
Initialize ==
  /\ process = "starting"
  /\ calls = <<>>
  /\ Call("initialize")

\* the cron job fires
ScheduledUpdate ==
  /\ process = "listening"
  /\ Call("cron")

\* POST /api/refresh
PostRefresh ==
  /\ process = "listening"
  /\ Call("refresh")

\* the caller's continuation: initialize starts the schedule and listens, or
\* exits the process; the cron job and the route only log and answer
processAfter(call, result) ==
  IF call.caller = "initialize"
  THEN IF result = "fulfilled" THEN "listening" ELSE "exited"
  ELSE process

\* the catch block of updateData: log and rethrow
Reject(i, at) ==
  /\ calls' = [calls EXCEPT ![i].at = at, ![i].result = "rejected",
                            ![i].held = <<>>]
  /\ process' = processAfter(calls[i], "rejected")

\* fetchRepository settles: it threw, or parseAllCSVs is called and awaited
FetchSettles(i, download) ==
  /\ process # "exited"
  /\ NoMicrotask
  /\ Pending(i) /\ calls[i].at = "fetching"
  /\ LET fetched == fetchRepository(download)
     IN  IF fetched.threw
         THEN Reject(i, "fetching")
         ELSE /\ calls' = [calls EXCEPT ![i].at = "parsing",
                             ![i].held = parseAllCSVs(fetched.repoData)]
              /\ UNCHANGED process
  /\ UNCHANGED <<svc, clock, buildVars, queryVars>>

\* parseAllCSVs rejects
ParseRejects(i) ==
  /\ process # "exited"
  /\ Pending(i) /\ calls[i].at = "parsing"
  /\ Reject(i, "parsing")
  /\ UNCHANGED <<svc, clock, buildVars, queryVars>>

\* parseAllCSVs resolved: buildProblemIndex runs; it throws, or lastUpdated is
\* stamped and updateData returns
BuildSettles(i, fault) ==
  /\ process # "exited"
  /\ Pending(i) /\ calls[i].at = "parsing"
  /\ LET built == buildProblemIndex(svc, calls[i].held, fault)
     IN  IF built.threw
         THEN /\ svc' = built.this
              /\ Reject(i, "building")
         ELSE /\ svc' = [built.this EXCEPT !.lastUpdated = <<clock>>]
              /\ calls' = [calls EXCEPT ![i].at = "building",
                             ![i].result = "fulfilled", ![i].held = <<>>,
                             ![i].published = svc']
              /\ process' = processAfter(calls[i], "fulfilled")
  /\ UNCHANGED <<clock, buildVars, queryVars>>

\* time passes
Tick ==
  /\ process # "exited"
  /\ clock < MaxClock
  /\ clock' = clock + 1
  /\ UNCHANGED <<svc, calls, process, buildVars, queryVars>>

Next ==
  \/ Initialize
  \/ ScheduledUpdate
  \/ PostRefresh
  \/ \E i \in 1..Len(calls) : \E download \in Downloads : FetchSettles(i, download)
  \/ \E i \in 1..Len(calls) : ParseRejects(i)
  \/ \E i \in 1..Len(calls) : \E fault \in BOOLEAN : BuildSettles(i, fault)
  \/ Tick

Spec == Init /\ [][Next]_vars

(***************************************************************************)
(* The DataService called directly: buildProblemIndex on a parsedData, the *)
(* two lookups, the status, and the /search route in front of              *)
(* searchProblems.                                                         *)
(***************************************************************************)
MaxBuilds == 2

AllRanges == <<"30-days", "60-days", "90-days", "180-days", "all-time">>

RangeSet == { AllRanges[n] : n \in 1..Len(AllRanges) }

\* one company of a parsedData: the file of every time range of the set
CompanyData(companyName, ranges, problems) ==
  [name |-> companyName,
   timeRanges |->
     LET present == SelectSeq(AllRanges, LAMBDA w : w \in ranges)
     IN  [n \in 1..Len(present) |-> [timeRange |-> present[n], problems |-> problems]]]

\* the parsedData drawn: Acme in up to two time ranges, Beta in up to one; a
\* company in no time range is not in it, so the one without both is empty
BuildInputs ==
  { (IF acme = {} THEN <<>>
     ELSE <<CompanyData("Acme", acme,
              <<Problem(<<"A", "b">>, 2), Problem(<<"a", " ", "B">>, 1)>>)>>)
    \o
    (IF beta = {} THEN <<>>
     ELSE <<CompanyData("Beta", beta, <<Problem(<<"a", "b", "!">>, 3)>>)>>) :
    acme \in { r \in SUBSET RangeSet : Cardinality(r) <= 2 },
    beta \in { r \in SUBSET {"90-days", "180-days"} : Cardinality(r) <= 1 } }

RangeTokens ==
  {"", "30", "60", "90", "180", "all",
   "30-days", "60-days", "90-days", "180-days", "all-time"}

QuerySlugs == { <<"a", "b">>, <<"A", "-", "B", " ">>, <<"b">> }

QueryTitles == { <<"a", "B">>, <<" ", "A", "\t", " ", "b">> }

SearchQueries == { <<"a">>, <<"B", " ">>, <<"-">> }

\* the limit parameter: absent or empty (<<>>), or a string
LimitStrings ==
  { <<>>, <<"0">>, <<"1">>, <<"2">>, <<"-", "1">>, <<"-", "2">>, <<"a">>,
    <<"1", "a">>, <<" ", "2">>, <<"5", "1">>, <<"-">> }

\* DataService.buildProblemIndex(parsedData).  The builds of a run are drawn
\* before its queries: a query leaves the DataService as it is, so a build
\* after a query produces no state a build before it does not.
BuildProblemIndex(data) ==
  /\ builds < MaxBuilds
  /\ response.op \in {"none", "build"}
  /\ LET built == buildProblemIndex(svc, data, FALSE)
     IN  /\ svc' = built.this
         /\ response' = [op |-> "build", parsedData |-> data, threw |-> built.threw]
  /\ builds' = builds + 1
  /\ UNCHANGED <<buildVars, serverVars>>

\* DataService.queryBySlug(slug, timeRange)
QueryBySlug(slug, timeRange) ==
  /\ response' = [op |-> "queryBySlug", slug |-> slug, timeRange |-> timeRange,
                  result |-> queryBySlug(svc, slug, timeRange)]
  /\ UNCHANGED <<svc, builds, buildVars, serverVars>>

\* DataService.queryByTitle(title, timeRange)
QueryByTitle(title, timeRange) ==
  /\ response' = [op |-> "queryByTitle", title |-> title, timeRange |-> timeRange,
                  result |-> queryByTitle(svc, title, timeRange)]
  /\ UNCHANGED <<svc, builds, buildVars, serverVars>>

\* GET /api/search?q=...&limit=...
GetSearch(q, limit) ==
  /\ response' = [op |-> "search", q |-> q, limit |-> limit,
                  maxLimit |-> maxLimitOf(limit),
                  results |-> searchProblems(svc, q, maxLimitOf(limit))]
  /\ UNCHANGED <<svc, builds, buildVars, serverVars>>

\* DataService.getStatus()
GetStatus ==
  /\ response' = [op |-> "getStatus", result |-> getStatus(svc)]
  /\ UNCHANGED <<svc, builds, buildVars, serverVars>>

NextQuery ==
  \/ \E data \in BuildInputs : BuildProblemIndex(data)
  \/ \E slug \in QuerySlugs : \E timeRange \in RangeTokens :
       QueryBySlug(slug, timeRange)
  \/ \E title \in QueryTitles : \E timeRange \in RangeTokens :
       QueryByTitle(title, timeRange)
  \/ \E q \in SearchQueries : \E limit \in LimitStrings : GetSearch(q, limit)
  \/ GetStatus

SpecQuery == Init /\ [][NextQuery]_vars

(***************************************************************************)
(* The update from two files that carry one title (SpecTitles).            *)
(*                                                                         *)
(* Two companies list the same problem, each in a file of its own, and the *)
(* title was typed twice: the two rows have the same words, and differ at  *)
(* most in letter case and in the whitespace around and between the words. *)
(* A title is any string over TitleChars up to MaxTitleLen, the empty one  *)
(* (a row without a title) and those of punctuation only included.        *)
(***************************************************************************)
TitleChars == {"A", "a", " ", "!"}

\* the titles of up to len characters
TitleStrings(len) == UNION { [1..n -> TitleChars] : n \in 0..len }

\* the words of a title: its runs of non-whitespace characters, letters
\* taken without their case
RECURSIVE WordsFrom(_, _, _)
WordsFrom(t, word, words) ==
  LET closed == IF word = <<>> THEN words ELSE Append(words, word)
  IN  IF t = <<>> THEN closed
      ELSE IF Head(t) \in SpaceChars THEN WordsFrom(Tail(t), <<>>, closed)
      ELSE WordsFrom(Tail(t),
                     Append(word, IF Head(t) = "A" THEN "a" ELSE Head(t)),
                     words)

Words(t) == WordsFrom(t, <<>>, <<>>)

WordLists(len) == { Words(t) : t \in TitleStrings(len) }

\* the pairs of rows: one title of up to len characters, typed twice
TitlePairs(len) ==
  LET titles == TitleStrings(len)
  IN  UNION { LET typed == { t \in titles : Words(t) = w }
              IN  typed \X typed : w \in WordLists(len) }

\* what fetchRepository hands over for the two files
TwoFiles(t1, t2) ==
  << [name |-> "Acme",
      timeRanges |-> << [timeRange |-> "30-days",
                         content |-> << Row(t1, 1) >>] >>],
     [name |-> "Beta",
      timeRanges |-> << [timeRange |-> "90-days",
                         content |-> << Row(t2, 2) >>] >>] >>

\* CSVParser.parseAllCSVs and DataService.buildProblemIndex on the two files,
\* in the order updateData calls them.  The update is the first of the run:
\* the build replaces the index whole, so an update after another leaves
\* nothing of the one before.
UpdateFromTitles ==
  /\ response = NoResponse
  /\ \E pair \in TitlePairs(MaxTitleLen) :
       LET built == buildProblemIndex(svc, parseAllCSVs(TwoFiles(pair[1], pair[2])),
                                      FALSE)
       IN  /\ svc' = built.this
           /\ response' = [op |-> "update", titles |-> pair,
                           slugs |-> <<titleToSlug(pair[1]), titleToSlug(pair[2])>>]
  /\ UNCHANGED <<builds, buildVars, serverVars>>

NextTitles == UpdateFromTitles

SpecTitles == Init /\ [][NextTitles]_vars

(***************************************************************************)
(* Properties of the titles                                                *)
(***************************************************************************)
\* the companies of the problems of the index, problem by problem
CompaniesFolded ==
  [n \in 1..Len(svc.problemMap) |->
     { svc.problemMap[n].companies[j].name :
         j \in 1..Len(svc.problemMap[n].companies) }]

\* C11: two titles that differ only in letter case, in the whitespace around
\* them or in the length of the whitespace runs inside them have the same
\* titleToSlug, and the build folds the records of two files that carry them
\* into one problem, which has the companies of both files.
C11_SameIdentityKey ==
  (/\ response.op = "update"
   /\ Words(response.titles[1]) = Words(response.titles[2]))
    => /\ response.slugs[1] = response.slugs[2]
       /\ Len(svc.problemMap) <= 1
       /\ response.titles[1] # <<>> /\ response.titles[2] # <<>>
            => CompaniesFolded = << {"Acme", "Beta"} >>

\* two titles of two words: the case of a letter, the whitespace in front
\* and the run between the words differ
C11_Witness ==
  /\ response.op = "update"
  /\ response.titles = << <<" ", "A", " ", "a">>, <<"a", " ", " ", "A">> >>
  /\ response.slugs[1] = <<"a", "-", "a">>
  /\ Len(svc.problemMap) = 1

\* C13: a record whose title has an empty titleToSlug is discarded by the
\* build: after the build no problem of the index has the empty slug, no
\* title of titleMap maps to it, and the company of such a record is in no
\* problem's companies.
C13_EmptyKeyDiscarded ==
  response.op = "update" =>
    /\ \A n \in 1..Len(svc.problemMap) : svc.problemMap[n].slug # <<>>
    /\ \A t \in DOMAIN svc.titleMap : svc.titleMap[t] # <<>>
    /\ response.slugs[1] = <<>>
         => \A n \in 1..Len(svc.problemMap) : "Acme" \notin CompaniesFolded[n]
    /\ response.slugs[2] = <<>>
         => \A n \in 1..Len(svc.problemMap) : "Beta" \notin CompaniesFolded[n]

(***************************************************************************)
(* Properties of the queries                                               *)
(***************************************************************************)
\* C5: buildProblemIndex called with a parsedData of no company, while an
\* index is in place, throws, and the DataService is as before the call.
C5_EmptyBuildFails ==
  [][(/\ builds' = builds + 1
      /\ response'.parsedData = <<>>
      /\ svc.totalProblems > 0)
       => (response'.threw /\ svc' = svc)]_vars

\* the window a request token names
WindowOf(token) ==
  CASE token = "30" -> "30-days"
    [] token = "60" -> "60-days"
    [] token = "90" -> "90-days"
    [] token = "all" -> "all-time"
    [] OTHER -> token

\* the place of a token's window in 30-days, 60-days, 90-days, all-time; the
\* last place for 'all' and for a token that names none of the four
Rank(token) ==
  IF \E n \in 1..Len(order) : order[n] = WindowOf(token)
  THEN CHOOSE n \in 1..Len(order) : order[n] = WindowOf(token)
  ELSE Len(order)

\* the window of the token and every tighter one
WindowsIncludedFor(token) == { order[n] : n \in 1..Rank(token) }

IsWindowedLookup ==
  /\ response.op \in {"queryBySlug", "queryByTitle"}
  /\ response.timeRange # ""
  /\ response.result.found

\* the problem of the index a lookup answered with
AnsweredEntry == svc.problemMap[MapIndex(svc.problemMap, response.result.value.slug)]

\* C8: a lookup with a window W answers with exactly the companies of the
\* problem whose timeRanges meet W and the tighter windows of the fixed order
\* (all four for 'all' and for a token that names none), in the order of the
\* index, each as name, frequency and last_seen and nothing else; and every
\* company it answers with is in the answer for every window as broad or
\* broader.
C8_WindowedProjection ==
  IsWindowedLookup =>
    LET value == response.result.value
        kept == SelectSeq(AnsweredEntry.companies,
                          LAMBDA c : c.timeRanges \cap
                                       WindowsIncludedFor(response.timeRange) # {})
    IN  /\ value.problem = AnsweredEntry.problem
        /\ Len(value.companies) = Len(kept)
        /\ \A j \in 1..Len(kept) :
             /\ DOMAIN value.companies[j] = {"name", "frequency", "last_seen"}
             /\ value.companies[j].name = kept[j].name
             /\ value.companies[j].frequency = kept[j].frequency
             /\ value.companies[j].last_seen = kept[j].last_seen
        /\ \A broader \in { t \in RangeTokens \ {""} :
                              Rank(t) >= Rank(response.timeRange) } :
             { value.companies[j].name : j \in 1..Len(value.companies) }
               \subseteq
             LET other == filterByTimeRange(AnsweredEntry, broader).companies
             IN  { other[j].name : j \in 1..Len(other) }

\* a lookup for 90 days of a problem of two companies: the one seen in
\* 60-days only is kept, the one seen in 180-days only is not
C8_Witness ==
  /\ IsWindowedLookup
  /\ response.timeRange = "90"
  /\ Len(AnsweredEntry.companies) = 2
  /\ Len(response.result.value.companies) = 1
  /\ \E j \in 1..2 :
       /\ AnsweredEntry.companies[j].name = response.result.value.companies[1].name
       /\ AnsweredEntry.companies[j].timeRanges = {"60-days"}
  /\ \E j \in 1..2 : AnsweredEntry.companies[j].timeRanges = {"180-days"}

\* the names of the companies a lookup answered with
AnsweredNames ==
  { response.result.value.companies[j].name :
      j \in 1..Len(response.result.value.companies) }

\* C12: a company whose records of a problem were seen in 180-days only (the
\* Six Months file) has last_seen all-time for it, is left out of the lookups
\* for 30, 60 and 90 days, and is in the lookup for the broadest window (all,
\* all-time).
C12_SixMonthsOnly ==
  IsWindowedLookup =>
    \A j \in 1..Len(AnsweredEntry.companies) :
      LET company == AnsweredEntry.companies[j]
      IN  company.timeRanges = {"180-days"} =>
            /\ company.last_seen = "all-time"
            /\ WindowOf(response.timeRange) \in {"30-days", "60-days", "90-days"}
                 => company.name \notin AnsweredNames
            /\ WindowOf(response.timeRange) = "all-time"
                 => company.name \in AnsweredNames

\* the problems a search matches, in the order of the index
SearchMatches(q) ==
  LET hits == SelectSeq(svc.problemMap,
                        LAMBDA data : matchesSearch(data, Trim(ToLowerCase(q))))
  IN  [n \in 1..Len(hits) |->
         [problem |-> hits[n].problem, slug |-> hits[n].slug,
          companyCount |-> Len(hits[n].companies)]]

\* C10: GET /search answers with no more results than the limit it passes to
\* searchProblems, Math.min(parseInt(limit) || 10, 50), and they are the first
\* matches of the index in its order, as many as the limit allows.  A limit
\* below zero is read as allowing none, so that an answer of no result is
\* within every limit.
C10_SearchWithinLimit ==
  response.op = "search" =>
    LET matches == SearchMatches(response.q)
        allowed == IF response.maxLimit < 0 THEN 0 ELSE response.maxLimit
        n == IF Len(matches) < allowed THEN Len(matches) ELSE allowed
    IN  /\ Len(response.results) <= allowed
        /\ response.results = SubSeq(matches, 1, n)

(***************************************************************************)
(* Properties of the server                                                *)
(***************************************************************************)
Fulfilled(i) == calls[i].result = "fulfilled"

Rejected(i) == calls[i].result = "rejected"

\* what a call that returned normally published
SnapshotOf(call) == call.published

SameIndex(a, b) ==
  /\ a.problemMap = b.problemMap
  /\ a.titleMap = b.titleMap
  /\ a.totalProblems = b.totalProblems
  /\ a.totalCompanies = b.totalCompanies

C1_FailureStep ==
  /\ \A i \in 1..Len(calls) :
       (Pending(i) /\ calls'[i].result = "rejected") =>
          /\ svc' = svc
          /\ calls[i].caller = "initialize" => process' = "exited"
  /\ svc' # svc =>
       \E i \in 1..Len(calls) : Pending(i) /\ calls'[i].result = "fulfilled"

\* C1: a step in which an updateData call fails (in fetch, in parse or in
\* the build) leaves the DataService as it was: problemMap, titleMap,
\* totalProblems, totalCompanies and lastUpdated, and with them the answer of
\* every lookup and search; the call ends rejected, which ends the process when
\* the caller is initialize; and the DataService changes only in a step in
\* which a call returns normally.
C1_FailedRebuildKeepsSnapshot == [][C1_FailureStep]_vars

\* a call that failed in its build, with a non-empty index published before
\* it and still in place
C1_Witness ==
  \E i \in 1..Len(calls) :
    /\ Rejected(i)
    /\ calls[i].at = "building"
    /\ svc.totalProblems > 0
    /\ \E j \in 1..Len(calls) : Fulfilled(j) /\ svc = SnapshotOf(calls[j])

\* C2: the index in place is that of the call that began last among the calls
\* that returned normally: a call that began earlier and ends later does not
\* put its index over it.
C2_LaterStartedWins ==
  \A i \in 1..Len(calls) :
    (Fulfilled(i) /\ \A j \in (i + 1)..Len(calls) : ~Fulfilled(j)) =>
       SameIndex(svc, SnapshotOf(calls[i]))

\* C3: in every state between two steps, which is every state a reader can
\* run in, the five fields of the DataService come from one build: they are
\* the constructor's, or the index, title map, counts and time stamp of one
\* call that returned normally; every slug the title map gives is a key of
\* problemMap, every problem of problemMap is found under its normalized
\* title, and totalProblems is the size of problemMap.
C3_SnapshotFromOneBuild ==
  /\ \A t \in DOMAIN svc.titleMap : MapHas(svc.problemMap, svc.titleMap[t])
  /\ \A n \in 1..Len(svc.problemMap) :
       LET t == normalizeTitle(svc.problemMap[n].problem)
       IN  t \in DOMAIN svc.titleMap /\ svc.titleMap[t] = svc.problemMap[n].slug
  /\ svc.totalProblems = Len(svc.problemMap)
  /\ \/ svc = NewDataService
     \/ \E i \in 1..Len(calls) : Fulfilled(i) /\ svc = SnapshotOf(calls[i])

\* two calls have published different indexes and a third is awaiting its
\* fetch
C3_Witness ==
  \E i, j, k \in 1..Len(calls) :
    /\ Fulfilled(i) /\ Fulfilled(j)
    /\ ~SameIndex(calls[i].published, calls[j].published)
    /\ svc = SnapshotOf(calls[j])
    /\ Pending(k) /\ calls[k].at = "fetching"

\* C4: at most one updateData call is in flight.
C4_AtMostOneRebuild ==
  Cardinality({ i \in 1..Len(calls) : Pending(i) }) <= 1

(***************************************************************************)
(* Properties of the build                                                 *)
(***************************************************************************)
\* every problem iterated so far, with its company and time range
RecordsOf(data) ==
  UNION { UNION { { [companyName |-> data[c].name,
                     timeRange |-> data[c].timeRanges[w].timeRange,
                     problem |-> data[c].timeRanges[w].problems[k]] :
                    k \in 1..Len(data[c].timeRanges[w].problems) } :
                  w \in 1..Len(data[c].timeRanges) } :
          c \in 1..Len(data) }

\* the records of one (problem, company) pair
PairRecords(data, slug, companyName) ==
  { r \in RecordsOf(data) :
      r.companyName = companyName /\ titleToSlug(r.problem.title) = slug }

SetMax(S) == CHOOSE x \in S : \A y \in S : y <= x

\* the greatest positive frequency among records, 0 when none is positive
MaxPositive(records) ==
  SetMax({0} \cup { r.problem.frequency : r \in
                      { q \in records : q.problem.hasFrequency
                                          /\ q.problem.frequency > 0 } })

\* the index under construction while the loops run, the published one after
CurrentMap == IF bpc = "returned" THEN svc.problemMap ELSE local.problemMap

Falsy(problem) == ~problem.hasFrequency \/ problem.frequency = 0

\* the record a NextProblem step folds
FoldedRecord ==
  LET c == Len(parsedData')
      w == Len(parsedData'[c].timeRanges)
  IN  parsedData'[c].timeRanges[w].problems[Len(parsedData'[c].timeRanges[w].problems)]

IsFoldStep ==
  /\ bpc = "building" /\ bpc' = "building"
  /\ CountProblems(parsedData') = CountProblems(parsedData) + 1

C6_AggregateIsMax ==
  \A i \in 1..Len(CurrentMap) :
    \A j \in 1..Len(CurrentMap[i].companies) :
      CurrentMap[i].companies[j].frequency =
        MaxPositive(PairRecords(parsedData, CurrentMap[i].slug,
                                CurrentMap[i].companies[j].name))

C6_FoldStep ==
  IsFoldStep =>
    \A i \in 1..Len(local.problemMap) :
      \A j \in 1..Len(local.problemMap[i].companies) :
        LET before == local.problemMap[i].companies[j]
            after == local'.problemMap[i].companies[j]
        IN  /\ after.name = before.name
            /\ after.frequency >= before.frequency
            /\ Falsy(FoldedRecord) => after.frequency = before.frequency

\* C6: while records are folded the maxFrequency (frequency) of a (problem,
\* company) aggregate never decreases from one record to the next, a record
\* whose frequency is 0 or absent leaves it unchanged, and at every point of
\* the build and in the published index it is the greatest positive frequency
\* among the records of the pair folded so far (0 if none is positive),
\* whatever the order of companies, time ranges and problems.
C6_MaxFrequency == [](C6_AggregateIsMax) /\ [][C6_FoldStep]_vars

\* a published aggregate of frequency 2 with a record of frequency 1 and a
\* record of frequency 2
C6_Witness ==
  /\ bpc = "returned"
  /\ \E i \in 1..Len(svc.problemMap) :
       \E j \in 1..Len(svc.problemMap[i].companies) :
         LET rs == PairRecords(parsedData, svc.problemMap[i].slug,
                               svc.problemMap[i].companies[j].name)
         IN  /\ svc.problemMap[i].companies[j].frequency = 2
             /\ \E r \in rs : r.problem.hasFrequency /\ r.problem.frequency = 1
             /\ \E r \in rs : r.problem.hasFrequency /\ r.problem.frequency = 2

\* the first window of 30-days, 60-days, 90-days, all-time that is in the set
Tightest(windows) ==
  IF "30-days" \in windows THEN "30-days"
  ELSE IF "60-days" \in windows THEN "60-days"
  ELSE IF "90-days" \in windows THEN "90-days"
  ELSE "all-time"

\* C7: after every folded record, and in the published index, the last_seen
\* of every aggregate is the first window of the fixed order 30-days, 60-days,
\* 90-days, all-time among the windows its records were seen in, whatever the
\* order the windows were iterated in, and all-time when none of the four is
\* among them.
C7_LastSeenIsTightest ==
  \A i \in 1..Len(CurrentMap) :
    \A j \in 1..Len(CurrentMap[i].companies) :
      LET entry == CurrentMap[i].companies[j]
          seen == { r.timeRange :
                    r \in PairRecords(parsedData, CurrentMap[i].slug, entry.name) }
      IN  /\ entry.timeRanges = seen
          /\ entry.last_seen = Tightest(seen)

\* an aggregate seen in 90-days first and in 30-days afterwards
C7_Witness ==
  /\ parsedData # <<>>
  /\ LET trs == parsedData[1].timeRanges
     IN  /\ Len(trs) = 2
         /\ trs[1].timeRange = "90-days"
         /\ trs[2].timeRange = "30-days"
         /\ \E i \in 1..Len(CurrentMap) :
              \E j \in 1..Len(CurrentMap[i].companies) :
                /\ CurrentMap[i].companies[j].timeRanges = {"30-days", "90-days"}
                /\ CurrentMap[i].companies[j].last_seen = "30-days"

\* where the outer loop meets a company
CompanyPosition(data, companyName) ==
  CHOOSE c \in 1..Len(data) : data[c].name = companyName

\* C9: after a build has returned, the companies of every problem of the
\* index are in descending order of frequency, companies of equal frequency
\* in the order the build discovered them for the problem, and they are the
\* companies that have a record of the problem.
C9_SortedStable ==
  bpc = "returned" =>
    \A i \in 1..Len(svc.problemMap) :
      LET companies == svc.problemMap[i].companies
      IN  /\ { companies[j].name : j \in 1..Len(companies) } =
               { r.companyName : r \in { q \in RecordsOf(parsedData) :
                   titleToSlug(q.problem.title) = svc.problemMap[i].slug } }
          /\ \A j, k \in 1..Len(companies) :
               j < k =>
                 /\ companies[j].frequency >= companies[k].frequency
                 /\ companies[j].frequency = companies[k].frequency =>
                      CompanyPosition(parsedData, companies[j].name)
                        < CompanyPosition(parsedData, companies[k].name)

\* a published problem of two companies with the same positive frequency
C9_Witness ==
  /\ bpc = "returned"
  /\ \E i \in 1..Len(svc.problemMap) :
       LET companies == svc.problemMap[i].companies
       IN  /\ Len(companies) = 2
           /\ companies[1].frequency = companies[2].frequency
           /\ companies[1].frequency > 0

=============================================================================
